---- MODULE Spec2Model ----
(***************************************************************************)
(* LruCache<K, V> of code/src/bin/lru_implementation.rs as a state machine.*)
(*                                                                         *)
(* The cache keeps its nodes on the heap and links them with raw pointers. *)
(* Only `head` owns a node (Option<Box<LruNode>>): every assignment to     *)
(* `head` drops the Box it held before and so hands that node back to the  *)
(* allocator, while `tail`, the map and the prev/next links keep pointing  *)
(* at it.  The heap is therefore modelled explicitly:                      *)
(*   mem   the contents of every address (kept as written after a free,    *)
(*         until the allocator hands the address out again),               *)
(*   live  the addresses the allocator currently counts as allocated.      *)
(* Box::new may return any address that is not live (a fresh one or one    *)
(* freed earlier); freeing an address that is not live is a double free,   *)
(* which the allocator either detects (abort) or lets pass.  A call frees  *)
(* at most one address twice, so one choice per call covers both outcomes. *)
(* A panic (unwrap on None) or an abort ends the run.                      *)
(***************************************************************************)
EXTENDS Integers, Sequences, FiniteSets, TLC

NumKeys == 3
NumVals == 2
NumAddrs == 3
MaxCap == 2
MaxOps == 5
NumThreads == 3
NumIncrements == 3

Keys == 1..NumKeys
WideKeys == 1..(NumKeys + 1)
WideOps == MaxOps + 1
Vals == 1..NumVals
Addrs == 1..NumAddrs
Null == 0
None == 0
Threads == 1..NumThreads
Unlocked == NumThreads + 1

\* The cache (capacity, map, head, tail), the heap (mem, live) and how the
\* last call ended (status).
VARIABLES capacity, map, mem, live, head, tail, status

\* Observers: the number of get/put calls made, the last call and its result,
\* the keys put since construction while every call was a put of a new key,
\* a reference LRU order, the value of the last put of every key, and the
\* progress of a get / put / get round trip on one key.
VARIABLES nops, lastOp, fresh, ref, lastPut, rt, recent

\* demonstrate_thread_scheduling of code/src/bin/operating_system_concepts.rs:
\* the counter inside the Mutex and the thread that holds the guard (owner),
\* each spawned thread's position (tpc), completed iterations (titer) and the
\* value it loaded for `*num += 1` (reg), the values printed (out), and
\* main's position (mainPc) and final_count.
VARIABLES counter, owner, tpc, titer, reg, out, mainPc, final_count

sched == <<counter, owner, tpc, titer, reg, out, mainPc, final_count>>

core == <<capacity, map, mem, live, head, tail, status>>

vars == <<capacity, map, mem, live, head, tail, status, nops, lastOp, fresh, ref, lastPut, rt,
          recent, counter, owner, tpc, titer, reg, out, mainPc, final_count>>

\* LruNode::new: both links null.
LruNode(key, value) == [key |-> key, value |-> value, prev |-> Null, next |-> Null]

\* An address no node was ever written to.
Blank == [key |-> 0, value |-> 0, prev |-> Null, next |-> Null]

EmptyMap == [k \in {} |-> [value |-> 0, ptr |-> Null]]

\* The cache and the heap as one value, threaded through a call's statements.
Cache == [capacity |-> capacity, map |-> map, mem |-> mem, live |-> live,
          head |-> head, tail |-> tail, status |-> status]

\* HashMap::len
MapLen(s) == Cardinality(DOMAIN s.map)

\* LruCache::len
len == Cardinality(DOMAIN map)

\* LruCache::is_empty
is_empty == DOMAIN map = {}

\* HashMap::insert
MapInsert(m, k, e) == [x \in DOMAIN m \cup {k} |-> IF x = k THEN e ELSE m[x]]

\* HashMap::remove
MapRemove(m, k) == [x \in DOMAIN m \ {k} |-> m[x]]

\* Dropping the Box at address a: the allocator frees a.  When a is not
\* allocated this is a double free: detected (abort) or not (cont).
DropBox(s, a, cont) ==
    IF s.status # "ok" THEN s
    ELSE IF a \in s.live THEN [s EXCEPT !.live = @ \ {a}]
    ELSE IF cont THEN s
    ELSE [s EXCEPT !.status = "abort"]

\* self.head = h: the Box held before (if any) is dropped.
SetHead(s, h, cont) ==
    IF s.status # "ok" THEN s
    ELSE IF s.head = None THEN [s EXCEPT !.head = h]
    ELSE DropBox([s EXCEPT !.head = h], s.head, cont)

\* LruCache::new
NewCache(c) == [capacity |-> c, map |-> EmptyMap, mem |-> [a \in Addrs |-> Blank],
                live |-> {}, head |-> None, tail |-> Null, status |-> "ok"]

\* LruCache::move_to_front
MoveToFront(s, p, cont) ==
    IF s.mem[p].prev = Null THEN s
    ELSE
      LET n == s.mem[p]
          \* remove from current position
          s1 == IF n.next # Null
                THEN [s EXCEPT !.mem[n.next].prev = n.prev]
                ELSE [s EXCEPT !.tail = n.prev]
          s2 == IF s1.mem[p].prev # Null
                THEN [s1 EXCEPT !.mem[s1.mem[p].prev].next = s1.mem[p].next]
                ELSE s1
          s3 == [s2 EXCEPT !.mem[p].prev = Null]
      IN  IF s3.head = None
          THEN [s3 EXCEPT !.status = "panic"]      \* unwrap() on None
          ELSE LET s4 == [s3 EXCEPT !.mem[p].next = s3.head]
                   s5 == [s4 EXCEPT !.mem[s4.mem[p].next].prev = p]
               IN  SetHead(s5, p, cont)

\* EvictLru with the entry of the node before the tail removed from the map.
EvictLruBeforeTail(s, cont) ==
    IF s.status # "ok" \/ s.tail = Null THEN s
    ELSE
      LET key == IF s.mem[s.tail].prev # Null
                 THEN s.mem[s.mem[s.tail].prev].key
                 ELSE s.mem[s.tail].key
          s1 == [s EXCEPT !.map = MapRemove(@, key)]
      IN  IF s1.mem[s1.tail].prev = Null
          THEN LET s2 == SetHead(s1, None, cont)
               IN  IF s2.status # "ok" THEN s2 ELSE [s2 EXCEPT !.tail = Null]
          ELSE LET t == s1.mem[s1.tail].prev
               IN  [s1 EXCEPT !.tail = t, !.mem[t].next = Null]

\* EvictLru with the capacity lowered by the eviction.
EvictLruShrinks(s, cont) ==
    IF s.status # "ok" \/ s.tail = Null THEN s
    ELSE
      LET key == s.mem[s.tail].key
          s1 == [s EXCEPT !.map = MapRemove(@, key), !.capacity = @ - 1]
      IN  IF s1.mem[s1.tail].prev = Null
          THEN LET s2 == SetHead(s1, None, cont)
               IN  IF s2.status # "ok" THEN s2 ELSE [s2 EXCEPT !.tail = Null]
          ELSE LET t == s1.mem[s1.tail].prev
               IN  [s1 EXCEPT !.tail = t, !.mem[t].next = Null]

\* LruCache::evict_lru
EvictLru(s, cont) ==
    IF s.status # "ok" \/ s.tail = Null THEN s
    ELSE
      LET key == s.mem[s.tail].key
          s1 == [s EXCEPT !.map = MapRemove(@, key)]
      IN  IF s1.mem[s1.tail].prev = Null
          THEN LET s2 == SetHead(s1, None, cont)
               IN  IF s2.status # "ok" THEN s2 ELSE [s2 EXCEPT !.tail = Null]
          ELSE LET t == s1.mem[s1.tail].prev
               IN  [s1 EXCEPT !.tail = t, !.mem[t].next = Null]

\* A get whose miss branch promotes the tail node instead of returning.
GetStateMissTouchesTail(s, k, cont) ==
    IF k \in DOMAIN s.map THEN MoveToFront(s, s.map[k].ptr, cont)
    ELSE IF s.tail # Null THEN MoveToFront(s, s.tail, cont)
    ELSE s

\* LruCache::get, the cache after the call
GetState(s, k, cont) ==
    IF k \in DOMAIN s.map THEN MoveToFront(s, s.map[k].ptr, cont) ELSE s

\* LruCache::get, the value returned (None on a miss)
GetValue(s, k) ==
    IF k \in DOMAIN s.map THEN s.map[k].value ELSE None

\* An update that falls through to an overflow check written with >=.
PutExistingEvicts(s, k, v, cont) ==
    LET p  == s.map[k].ptr
        s1 == MoveToFront([s EXCEPT !.mem[p].value = v], p, cont)
    IN  IF s1.status = "ok" /\ MapLen(s1) >= s1.capacity THEN EvictLru(s1, cont) ELSE s1

\* An update that copies the node's old value into the map entry before it
\* overwrites the node.
PutExistingStaleSync(s, k, v, cont) ==
    LET p  == s.map[k].ptr
        s1 == [s EXCEPT !.map[k].value = s.mem[p].value]
    IN  MoveToFront([s1 EXCEPT !.mem[p].value = v], p, cont)

\* LruCache::put, existing key
PutExisting(s, k, v, cont) ==
    LET p == s.map[k].ptr
    IN  MoveToFront([s EXCEPT !.mem[p].value = v], p, cont)

\* LruCache::put, new key, up to map.insert; a is the address Box::new returns
PutInsert(s, k, v, a, cont) ==
    LET s0 == [s EXCEPT !.mem[a] = LruNode(k, v), !.live = @ \cup {a}]
        s1 == IF MapLen(s0) = 0
              THEN SetHead([s0 EXCEPT !.tail = a], a, cont)
              ELSE IF s0.head = None
              THEN [s0 EXCEPT !.status = "panic", !.live = @ \ {a}]  \* unwrap() on None
              ELSE LET h  == s0.head
                       sa == [s0 EXCEPT !.mem[a].next = h]
                       sb == [sa EXCEPT !.mem[sa.mem[a].next].prev = a]
                   IN  SetHead(sb, a, cont)
    IN  IF s1.status # "ok" THEN s1
        ELSE IF s1.head # None
        THEN [s1 EXCEPT !.map = MapInsert(@, k, [value |-> v, ptr |-> s1.head])]
        ELSE s1

\* put of a new key with the eviction one entry late.
PutNewLateEvict(s, k, v, a, cont) ==
    LET s2 == PutInsert(s, k, v, a, cont)
    IN  IF s2.status = "ok" /\ MapLen(s2) > s2.capacity + 1 THEN EvictLru(s2, cont) ELSE s2

\* LruCache::put, new key
PutNew(s, k, v, a, cont) ==
    LET s2 == PutInsert(s, k, v, a, cont)
    IN  IF s2.status = "ok" /\ MapLen(s2) > s2.capacity THEN EvictLru(s2, cont) ELSE s2

\* LruCache::put
PutState(s, k, v, a, cont) ==
    IF k \in DOMAIN s.map THEN PutExisting(s, k, v, cont)
    ELSE PutNew(s, k, v, a, cont)

Install(s) ==
    /\ capacity' = s.capacity
    /\ map' = s.map
    /\ mem' = s.mem
    /\ live' = s.live
    /\ head' = s.head
    /\ tail' = s.tail
    /\ status' = s.status

(***************************************************************************)
(* Observers.  None of them is read by the operations above.               *)
(***************************************************************************)

NoOp == [op |-> "none", key |-> 0, val |-> 0, ret |-> 0, hit |-> FALSE]

Broken == <<0>>

FreshPut(f, k) ==
    IF f # Broken /\ k \notin {f[i] : i \in 1..Len(f)} /\ Len(f) <= MaxCap
    THEN Append(f, k) ELSE Broken

RECURSIVE Without(_, _)
Without(q, k) ==
    IF q = <<>> THEN <<>>
    ELSE IF Head(q) = k THEN Without(Tail(q), k)
    ELSE <<Head(q)>> \o Without(Tail(q), k)

Range(q) == {q[i] : i \in 1..Len(q)}

\* The keys put or found by a get so far, the most recently accessed first.
Touch(q, k) == <<k>> \o Without(q, k)

\* The reference LRU: most recent first.
RefGet(q, k) == IF k \in Range(q) THEN <<k>> \o Without(q, k) ELSE q

RefPut(q, k, c) ==
    IF k \in Range(q) THEN <<k>> \o Without(q, k)
    ELSE IF Len(q) >= c THEN <<k>> \o SubSeq(q, 1, Len(q) - 1)
    ELSE <<k>> \o q

NoRt == [stage |-> 0, val |-> 0, len |-> 0]

Init ==
    /\ capacity = 0
    /\ map = EmptyMap
    /\ mem = [a \in Addrs |-> Blank]
    /\ live = {}
    /\ head = None
    /\ tail = Null
    /\ status = "unbuilt"
    /\ nops = 0
    /\ lastOp = NoOp
    /\ fresh = <<>>
    /\ ref = <<>>
    /\ recent = <<>>
    /\ counter = 0
    /\ owner = Unlocked
    /\ tpc = [t \in Threads |-> "unspawned"]
    /\ titer = [t \in Threads |-> 0]
    /\ reg = [t \in Threads |-> 0]
    /\ out = <<>>
    /\ mainPc = [pc |-> "spawn", i |-> 1]
    /\ final_count = 0
    /\ lastPut = [k \in WideKeys |-> 0]
    /\ rt = NoRt

(***************************************************************************)
(* The inputs of a call.  Keys, values and addresses that no call has used *)
(* yet are interchangeable, so of those only the least is drawn: every     *)
(* call sequence is covered up to a renaming of keys, values and addresses.*)
(***************************************************************************)
Least(S, used) == {x \in S : x \in used \/ \A y \in S : y < x => y \in used}

UsedKeys == {k \in WideKeys : lastPut[k] # 0}

UsedVals == {lastPut[k] : k \in WideKeys} \cup {map[k].value : k \in DOMAIN map}
               \cup {mem[a].value : a \in Addrs}

UsedAddrs == {a \in Addrs : mem[a] # Blank}

\* let cache = LruCache::new(c)
New ==
    /\ status = "unbuilt"
    /\ \E c \in 0..MaxCap :
         /\ Install(NewCache(c))
         /\ lastOp' = [op |-> "new", key |-> 0, val |-> c, ret |-> 0, hit |-> FALSE]
    /\ UNCHANGED <<nops, fresh, ref, lastPut, rt, recent>>
    /\ UNCHANGED sched

\* cache.get(&k), k drawn from KS
GetOn(KS, limit) ==
    /\ status = "ok"
    /\ nops < limit
    /\ \E k \in Least(KS, UsedKeys), cont \in BOOLEAN :
         LET s == GetState(Cache, k, cont)
         IN  /\ Install(s)
             /\ lastOp' = [op |-> "get", key |-> k, val |-> 0,
                           ret |-> IF s.status = "ok" THEN GetValue(s, k) ELSE None,
                           hit |-> k \in DOMAIN map]
             /\ ref' = RefGet(ref, k)
             /\ recent' = IF k \in DOMAIN map /\ s.status = "ok"
                           THEN Touch(recent, k) ELSE recent
             /\ rt' = IF rt.stage = 2 /\ lastOp.key = k /\ s.status = "ok"
                      THEN [rt EXCEPT !.stage = 3]
                      ELSE NoRt
    /\ nops' = nops + 1
    /\ fresh' = Broken
    /\ UNCHANGED lastPut
    /\ UNCHANGED sched

\* cache.put(k, v), k drawn from KS and v from VS
PutOn(KS, VS, limit) ==
    /\ status = "ok"
    /\ nops < limit
    /\ \E k \in Least(KS, UsedKeys), v \in Least(VS, UsedVals),
          a \in Least(Addrs, UsedAddrs) \ live, cont \in BOOLEAN :
         LET s == PutState(Cache, k, v, a, cont)
         IN  /\ Install(s)
             /\ lastOp' = [op |-> "put", key |-> k, val |-> v, ret |-> 0,
                           hit |-> k \in DOMAIN map]
             /\ fresh' = FreshPut(fresh, k)
             /\ ref' = RefPut(ref, k, capacity)
             /\ recent' = Touch(recent, k)
             /\ lastPut' = [lastPut EXCEPT ![k] = v]
             /\ rt' = IF /\ lastOp.op = "get" /\ lastOp.hit /\ lastOp.key = k
                         /\ lastOp.ret = v /\ s.status = "ok"
                      THEN [stage |-> 2, val |-> v, len |-> len]
                      ELSE NoRt
    /\ nops' = nops + 1
    /\ UNCHANGED sched

Get == GetOn(Keys, MaxOps)

Put == PutOn(Keys, Vals, MaxOps)

Next == New \/ Get \/ Put

Spec == Init /\ [][Next]_vars

\* One more key and one more call, a single value.
GetWide == GetOn(WideKeys, WideOps)

PutWide == PutOn(WideKeys, {1}, WideOps)

NextWide == New \/ GetWide \/ PutWide

SpecWide == Init /\ [][NextWide]_vars

(***************************************************************************)
(* The recency order as the code can read it: the nodes reached from head  *)
(* by next links.  A chain longer than the number of addresses has a cycle *)
(* and is cut one node past it.                                            *)
(***************************************************************************)
RECURSIVE Chain(_, _)
Chain(a, n) ==
    IF a = Null \/ n = 0 THEN <<>> ELSE <<a>> \o Chain(mem[a].next, n - 1)

Order == IF head = None THEN <<>> ELSE Chain(head, NumAddrs + 1)

OrderKeys == [i \in 1..Len(Order) |-> mem[Order[i]].key]

Returned == status = "ok" /\ lastOp.op \in {"get", "put"}

\* C1: after every put that returns, len() <= capacity.
C1_CapacityBound ==
    (status = "ok" /\ lastOp.op = "put") => len <= capacity

\* C2: for a capacity >= 1, after every call that returns, the set of present
\* keys is the set of keys of the reference LRU (successful get or any put
\* moves the key to the front, a put of a new key into a full cache drops the
\* last key).
C2_MatchesReferenceLru ==
    (Returned /\ capacity >= 1) => DOMAIN map = Range(ref)

\* C3: a get that hits on key K returns the value given to the most recent
\* put(K, .).
C3_GetReturnsLastPut ==
    (status = "ok" /\ lastOp.op = "get" /\ lastOp.hit)
        => lastOp.ret = lastPut[lastOp.key]

\* C4: a put on a key that is already present leaves the set of present keys,
\* and so len(), unchanged: no second entry, no eviction, also when full.
C4_UpdateKeepsKeys ==
    [][(lastOp'.op = "put" /\ lastOp'.hit)
          => (DOMAIN map' = DOMAIN map /\ len' = len)]_vars

C4_Witness ==
    /\ status = "ok" /\ lastOp.op = "put" /\ lastOp.hit
    /\ capacity >= 2 /\ len = capacity

\* C5: after a successful get(A) on a cache holding at least two keys, the
\* next put, when it is a put of a new key into a full cache, does not evict A.
C5_PromotionOnRead ==
    [][(/\ status = "ok" /\ lastOp.op = "get" /\ lastOp.hit
        /\ len >= 2 /\ len >= capacity
        /\ lastOp'.op = "put" /\ ~lastOp'.hit /\ status' = "ok")
          => lastOp.key \in DOMAIN map']_vars

\* C6: on an empty cache of capacity C >= 1, after C+1 distinct keys are put
\* in order with no other call in between, the first is absent, the others
\* are present and the last one is the key of the head node.
C6_RecencyCorrectness ==
    (status = "ok" /\ capacity >= 1 /\ fresh # Broken /\ Len(fresh) = capacity + 1)
        => /\ fresh[1] \notin DOMAIN map
           /\ \A i \in 2..(capacity + 1) : fresh[i] \in DOMAIN map
           /\ head # None
           /\ mem[head].key = fresh[capacity + 1]

\* C7: a get on a key that is not present returns none and changes nothing:
\* capacity, map, head, tail, every node and the allocator's state are as
\* before, and the call returns normally.
C7_IdempotentMiss ==
    [][(lastOp'.op = "get" /\ ~lastOp'.hit)
          => (lastOp'.ret = None /\ UNCHANGED core)]_vars

C7_Witness ==
    /\ status = "ok" /\ lastOp.op = "get" /\ ~lastOp.hit
    /\ len >= 1 /\ head # None

\* C8: new(0) is rejected: it never yields a usable cache.
C8_NewZeroRejected ==
    (lastOp.op = "new" /\ lastOp.val = 0) => status # "ok"

C10_StoreOrderBijection ==
    Returned =>
        /\ DOMAIN map = Range(OrderKeys)
        /\ \A i, j \in 1..Len(Order) : OrderKeys[i] = OrderKeys[j] => i = j
        /\ \A k \in DOMAIN map :
              map[k].ptr \in Range(Order) /\ mem[map[k].ptr].key = k

\* A put of a new key that returns, into a cache that holds at least
\* capacity keys.
OverflowingPut ==
    /\ status = "ok" /\ lastOp'.op = "put" /\ ~lastOp'.hit /\ status' = "ok"
    /\ len >= capacity

\* C11 (I2): for a capacity >= 1, after every successful get(k) and every
\* put(k, v) that returns, the head node holds key k; and the key an
\* overflowing put evicts from a non-empty cache is the key of the tail node.
C11_HeadAndTail ==
    [][/\ (/\ status' = "ok" /\ capacity' >= 1
           /\ (lastOp'.op = "put" \/ (lastOp'.op = "get" /\ lastOp'.hit)))
          => (head' # None /\ mem'[head'].key = lastOp'.key)
       /\ (OverflowingPut /\ capacity >= 1 /\ len >= 1)
          => /\ tail # Null
             /\ DOMAIN map \ DOMAIN map' = {mem[tail].key}]_vars

\* C12 (I3): for a capacity C >= 1, a put of a new key that returns removes
\* exactly the key of the tail node and leaves len() == C with the new key
\* present when the cache held C keys, and removes nothing and raises len()
\* by one when it held fewer.
C12_ExactlyOneEviction ==
    [][(/\ status = "ok" /\ capacity >= 1
        /\ lastOp'.op = "put" /\ ~lastOp'.hit /\ status' = "ok")
          => IF len = capacity
             THEN /\ tail # Null
                  /\ mem[tail].key \in DOMAIN map
                  /\ DOMAIN map' = (DOMAIN map \ {mem[tail].key}) \cup {lastOp'.key}
                  /\ len' = capacity
             ELSE len < capacity
                  => /\ DOMAIN map' = DOMAIN map \cup {lastOp'.key}
                     /\ len' = len + 1]_vars

\* C13 (I4): after every get and put that returns, following next links from
\* head reaches a null link in at most len() steps, and no node and no key is
\* visited twice.
C13_AcyclicOrder ==
    Returned =>
        /\ Len(IF head = None THEN <<>> ELSE Chain(head, len + 1)) <= len
        /\ \A i, j \in 1..Len(Order) :
              (Order[i] = Order[j] \/ OrderKeys[i] = OrderKeys[j]) => i = j

\* C14: a key becomes present only in a put of that key, and becomes absent
\* only in a put of a different, new key that overflows the capacity while
\* the key is the key of the tail node; a get and a put on a present key leave
\* the set of present keys unchanged.
C14_PresenceChanges ==
    [][/\ \A k \in DOMAIN map' \ DOMAIN map :
             lastOp'.op = "put" /\ lastOp'.key = k
       /\ \A k \in DOMAIN map \ DOMAIN map' :
             /\ lastOp'.op = "put" /\ ~lastOp'.hit /\ lastOp'.key # k
             /\ len + 1 > capacity
             /\ tail # Null /\ mem[tail].key = k
       /\ (lastOp'.op = "get" \/ (lastOp'.op = "put" /\ lastOp'.hit))
             => DOMAIN map' = DOMAIN map]_vars

C14_Witness ==
    /\ status = "ok" /\ lastOp.op = "put" /\ ~lastOp.hit
    /\ capacity = 2 /\ len = 2 /\ nops >= 3
    /\ lastOp.key \in DOMAIN map

\* C15: every get and put on a built cache of capacity >= 1 completes: no
\* unwrap() of a None head panics and the allocator is not made to abort.
C15_Totality ==
    capacity >= 1 => status \in {"unbuilt", "ok"}

\* C16: is_empty() is true exactly when len() == 0, and len() is the number
\* of nodes reachable from head.
C16_LenCountsNodes ==
    Returned => /\ is_empty <=> (len = 0)
                /\ len = Len(Order)

\* C17: no call changes the capacity fixed by new.
C17_CapacityImmutable ==
    [][status # "unbuilt" => capacity' = capacity]_vars

C17_Witness ==
    /\ status = "ok" /\ lastOp.op = "put" /\ ~lastOp.hit
    /\ capacity = 1 /\ nops >= 3 /\ len = 1

\* C18: after every get and put that returns, for every present key the
\* value in the map entry equals the value field of the node of the key.
C18_ValueCopiesAgree ==
    Returned => \A k \in DOMAIN map : map[k].value = mem[map[k].ptr].value

\* C19: after every get and put, every node designated by a map entry, by
\* tail or by head is still allocated, and no node was freed twice.
C19_NodesLive ==
    (lastOp.op \in {"get", "put"}) =>
        /\ status # "abort"
        /\ \A k \in DOMAIN map : map[k].ptr \in live
        /\ tail # Null => tail \in live
        /\ head # None => head \in live

\* C20: move_to_front(n), reached through a get that hits and returns, of a
\* node n linked into the list changes nothing when n is the head; otherwise
\* n is first afterwards, the other nodes keep their relative order, the
\* number of nodes is unchanged, and tail becomes the former predecessor of n
\* exactly when n was the tail.
C20_MoveToFront ==
    [][(/\ status = "ok" /\ lastOp'.op = "get" /\ lastOp'.hit /\ status' = "ok"
        /\ map[lastOp'.key].ptr \in Range(Order))
          => LET n == map[lastOp'.key].ptr
             IN  IF n = head
                 THEN UNCHANGED core
                 ELSE /\ Order' = <<n>> \o Without(Order, n)
                      /\ Len(Order') = Len(Order)
                      /\ tail' = (IF n = tail THEN mem[n].prev ELSE tail)]_vars

\* C21: a put of a new key that returns places the new node at the head, and
\* the nodes behind it are the nodes linked before the call in the same
\* relative order, without the former tail when the put overflows the
\* capacity.
C21_PutNewAtHead ==
    [][(/\ status = "ok" /\ capacity >= 1
        /\ lastOp'.op = "put" /\ ~lastOp'.hit /\ status' = "ok")
          => /\ head' # None
             /\ mem'[head'].key = lastOp'.key
             /\ head' \notin Range(Order)
             /\ Tail(Order') = (IF len + 1 > capacity
                                THEN SubSeq(Order, 1, Len(Order) - 1)
                                ELSE Order)]_vars

\* C22: after every get and put that returns, the prev link of the head node
\* is null, the next link of the tail node is null, every linked node with a
\* successor is the prev of that successor, and tail is the last node reached
\* from head, so that the order read backward from tail by prev links is the
\* order read forward from head reversed.
C22_DoublyLinked ==
    (Returned /\ head # None) =>
        /\ mem[head].prev = Null
        /\ tail # Null
        /\ mem[tail].next = Null
        /\ tail = Order[Len(Order)]
        /\ \A i \in 1..(Len(Order) - 1) : mem[Order[i + 1]].prev = Order[i]

\* C23: after every get and put that returns, head is None exactly when
\* tail is null exactly when the map is empty, so that a put never enters
\* evict_lru with a null tail.
C23_EmptinessAgreement ==
    Returned => /\ (head = None) <=> (tail = Null)
                /\ (tail = Null) <=> is_empty

\* C24: a cache built with new(0) accepts every put: the entry is in the map
\* when the capacity is compared (len() == 1 > 0) and is evicted before put
\* returns, so that after every call len() == 0, head is None, tail is null,
\* no node stays allocated, and every get returns none.
C24_ZeroCapacity ==
    (capacity = 0 /\ status # "unbuilt") =>
        /\ status = "ok"
        /\ len = 0 /\ head = None /\ tail = Null /\ live = {}
        /\ lastOp.op = "get" => (~lastOp.hit /\ lastOp.ret = None)
        /\ \A k \in Keys, a \in Addrs :
              MapLen(PutInsert(Cache, k, 1, a, TRUE)) = 1

C24_Witness ==
    /\ capacity = 0 /\ status = "ok" /\ nops >= 3
    /\ lastOp.op = "get" /\ lastPut[lastOp.key] # 0

\* C25: a get(k) that directly follows a get(k) that found k returns the
\* same value and leaves the whole cache state as the first call left it;
\* a get(k) that finds k and returns changes the order read from head
\* whenever the node of k was not the head.
C25_RepeatedGet ==
    [][/\ (/\ status = "ok" /\ lastOp.op = "get" /\ lastOp.hit
           /\ lastOp'.op = "get" /\ lastOp'.key = lastOp.key /\ nops' = nops + 1)
          => (lastOp'.ret = lastOp.ret /\ UNCHANGED core)
       /\ (/\ status = "ok" /\ lastOp'.op = "get" /\ lastOp'.hit /\ nops' = nops + 1
           /\ status' = "ok" /\ map[lastOp'.key].ptr # head)
          => Order' # Order]_vars

\* C26: in a cache of capacity C >= 1, after every get and put that returns,
\* every key that was put or found by a get, and since then fewer than C
\* distinct other keys were put or found, is present.
C26_SurvivalWindow ==
    (Returned /\ capacity >= 1) =>
        \A i \in 1..Len(recent) : i <= capacity => recent[i] \in DOMAIN map

(***************************************************************************)
(* demonstrate_thread_scheduling: main spawns NumThreads threads, each of  *)
(* which locks the mutex, increments the counter, prints it, drops the    *)
(* guard and sleeps, NumIncrements times (100 in the source); main then    *)
(* joins the threads in spawn order and reads the counter under the lock.  *)
(* `*num += 1` is a load followed by a store.                              *)
(***************************************************************************)
lru == <<capacity, map, mem, live, head, tail, status,
         nops, lastOp, fresh, ref, lastPut, rt, recent>>

\* thread::spawn, i-th turn of the loop of main
Spawn ==
    /\ mainPc.pc = "spawn"
    /\ tpc' = [tpc EXCEPT ![mainPc.i] = "lock"]
    /\ mainPc' = IF mainPc.i < NumThreads
                 THEN [mainPc EXCEPT !.i = @ + 1]
                 ELSE [pc |-> "join", i |-> 1]
    /\ UNCHANGED <<counter, owner, titer, reg, out, final_count, lru>>

\* counter_clone.lock() with the mutex taken whether or not it is held
LockNoWait(t) ==
    /\ tpc[t] = "lock"
    /\ owner' = t
    /\ tpc' = [tpc EXCEPT ![t] = "load"]
    /\ UNCHANGED <<counter, titer, reg, out, mainPc, final_count, lru>>

\* counter_clone.lock().unwrap(): blocks while another thread holds the guard
Lock(t) ==
    /\ tpc[t] = "lock"
    /\ owner = Unlocked
    /\ owner' = t
    /\ tpc' = [tpc EXCEPT ![t] = "load"]
    /\ UNCHANGED <<counter, titer, reg, out, mainPc, final_count, lru>>

\* *num += 1, the read
Load(t) ==
    /\ tpc[t] = "load"
    /\ reg' = [reg EXCEPT ![t] = counter]
    /\ tpc' = [tpc EXCEPT ![t] = "store"]
    /\ UNCHANGED <<counter, owner, titer, out, mainPc, final_count, lru>>

\* *num += 1, the write
Store(t) ==
    /\ tpc[t] = "store"
    /\ counter' = reg[t] + 1
    /\ tpc' = [tpc EXCEPT ![t] = "print"]
    /\ UNCHANGED <<owner, titer, reg, out, mainPc, final_count, lru>>

\* println!("Thread {} incremented to: {}", i, *num)
PrintNum(t) ==
    /\ tpc[t] = "print"
    /\ out' = Append(out, counter)
    /\ tpc' = [tpc EXCEPT ![t] = "drop"]
    /\ UNCHANGED <<counter, owner, titer, reg, mainPc, final_count, lru>>

\* drop(num)
Drop(t) ==
    /\ tpc[t] = "drop"
    /\ owner' = Unlocked
    /\ tpc' = [tpc EXCEPT ![t] = "sleep"]
    /\ UNCHANGED <<counter, titer, reg, out, mainPc, final_count, lru>>

\* thread::sleep and the end of one turn of `for _ in 0..100`
Sleep(t) ==
    /\ tpc[t] = "sleep"
    /\ titer' = [titer EXCEPT ![t] = @ + 1]
    /\ tpc' = [tpc EXCEPT ![t] = IF titer[t] + 1 < NumIncrements THEN "lock" ELSE "done"]
    /\ UNCHANGED <<counter, owner, reg, out, mainPc, final_count, lru>>

\* handle.join().unwrap(), i-th turn of the loop of main
Join ==
    /\ mainPc.pc = "join"
    /\ tpc[mainPc.i] = "done"
    /\ mainPc' = IF mainPc.i < NumThreads
                 THEN [mainPc EXCEPT !.i = @ + 1]
                 ELSE [pc |-> "final", i |-> 0]
    /\ UNCHANGED <<counter, owner, tpc, titer, reg, out, final_count, lru>>

\* let final_count = *counter.lock().unwrap()
ReadFinal ==
    /\ mainPc.pc = "final"
    /\ owner = Unlocked
    /\ final_count' = counter
    /\ mainPc' = [pc |-> "done", i |-> 0]
    /\ UNCHANGED <<counter, owner, tpc, titer, reg, out, lru>>

ThreadStep(t) == Lock(t) \/ Load(t) \/ Store(t) \/ PrintNum(t) \/ Drop(t) \/ Sleep(t)

NextCounter == Spawn \/ Join \/ ReadFinal \/ \E t \in Threads : ThreadStep(t)

SpecCounter == Init /\ [][NextCounter]_vars

\* The increments thread t has written so far.
Written(t) == titer[t] + (IF tpc[t] \in {"print", "drop", "sleep"} THEN 1 ELSE 0)

RECURSIVE WrittenUpTo(_)
WrittenUpTo(n) == IF n = 0 THEN 0 ELSE Written(n) + WrittenUpTo(n - 1)

\* C27: under every interleaving of the threads no increment is lost (the
\* counter is the number of increments written), the values printed are
\* 1, 2, 3, ... each once and in increasing order, and once main has joined
\* every thread the final counter value is the number of threads times the
\* number of increments of each (3 x 100 = 300 in the source).
C27_MutexCounter ==
    /\ counter = WrittenUpTo(NumThreads)
    /\ out = [i \in 1..Len(out) |-> i]
    /\ mainPc.pc \in {"final", "done"} => counter = NumThreads * NumIncrements
    /\ mainPc.pc = "done" => /\ final_count = NumThreads * NumIncrements
                             /\ Len(out) = NumThreads * NumIncrements

C27_Witness ==
    /\ mainPc.pc = "done"
    /\ final_count = NumThreads * NumIncrements
    /\ Len(out) = NumThreads * NumIncrements

====
